---- MODULE Spec2Model ----
(***************************************************************************)
(* A model of sampnn/message.py: MessageLayer, CompositionNet,             *)
(* WeightedMeanPooling and GlobalAttention.                                *)
(*                                                                         *)
(* Four specifications share the module.                                   *)
(*   Spec          CompositionNet.forward on batches that respect the      *)
(*                 input contract, over forward passes and mode switches.  *)
(*   SpecBadIndex  the same network on batches with one index entry out of *)
(*                 its domain.                                             *)
(*   SpecGate      construction of a CompositionNet and parameter updates  *)
(*                 of its gate networks (object identity of the gates).    *)
(*   SpecPool      the arithmetic of GlobalAttention.forward and           *)
(*                 WeightedMeanPooling.forward in exact rational numbers.  *)
(*                                                                         *)
(* In Spec and SpecBadIndex a feature row is represented by the set of     *)
(* input atom rows its value is computed from, and a normalization output  *)
(* by the statistics it read: the shapes, the indexing and the data flow   *)
(* of the forward pass are those of the code, the learned maps are not     *)
(* evaluated.                                                              *)
(***************************************************************************)
EXTENDS Integers, Sequences, FiniteSets, TLC

VARIABLES
    n_graph,      \* CompositionNet: number of MessageLayers in self.graphs
    output_nn,    \* CompositionNet: "unset" (attribute never assigned) or "head"
    training,     \* nn.Module.training of the network and all its layers
    bn,           \* per layer: num_batches_tracked of filter_bn and core_bn
    batch,        \* the mini-batch handed to forward
    result,       \* what the last forward pass did
    heap,         \* SpecGate: the gate objects in memory, object id -> parameters
    caller,       \* SpecGate: the objects the caller passes as atom_gate and crys_gate
    net,          \* SpecGate: the constructed net, the gate object each component holds
    touched,      \* SpecGate: the component whose gate the last update went through
    pin,          \* SpecPool: the input (x, index, weights, gate_nn)
    pout          \* SpecPool: what the last pooling call returned

vars == <<n_graph, output_nn, training, bn, batch, result,
          heap, caller, net, touched, pin, pout>>

netVars  == <<n_graph, output_nn, training, bn, batch, result>>
gateVars == <<heap, caller, net, touched>>
poolVars == <<pin, pout>>

(***************************************************************************)
(* Bounds of the model.                                                    *)
(***************************************************************************)
MaxAtoms == 2
MaxBonds == 2
MaxCrystals == 2
MaxGraph == 2
MaxTracked == 2
MaxParam == 2
MaxRows == 2
MaxSegments == 2
MaxFea == 2
MaxShift == 2
BigFea == 40

\* 1e-13 in GlobalAttention.forward is 10^-EpsDigits
EpsDigits == 13

\* ------------------------------------------------------------------------
\* Helpers
\* ------------------------------------------------------------------------
Range(f) == {f[i] : i \in DOMAIN f}

MaxOf(S) == CHOOSE m \in S : \A k \in S : k <= m

NonDecreasing(s) == \A i \in DOMAIN s : \A j \in DOMAIN s : i <= j => s[i] <= s[j]

\* ------------------------------------------------------------------------
\* Tensor indexing and scatter, as far as shapes and data flow go
\* ------------------------------------------------------------------------

\* t[idx, :] with an index tensor: entries in [-n, n) are accepted, negative
\* ones count from the end; anything else raises IndexError.
IndexInBounds(n, idx) == \A j \in DOMAIN idx : idx[j] >= 0 - n /\ idx[j] < n

WrapIndex(i, n) == IF i < 0 THEN i + n ELSE i

\* without dim_size the scatter output has index.max() + 1 rows
ScatterRows(index) == IF MaxOf(Range(index)) + 1 > 0 THEN MaxOf(Range(index)) + 1 ELSE 0

\* scatter_add(src, index, dim=0): output row s is built from the rows r with
\* index[r] = s; a row no entry points to is left at the fill value.
ScatterDeps(src, index) ==
    [s \in 0..(ScatterRows(index) - 1) |->
        UNION {src[r] : r \in {q \in DOMAIN index : index[q] = s}}]

\* rows of a 0-based table
NRows(t) == Cardinality(DOMAIN t)

NoRows == [i \in {} |-> {}]

\* GlobalAttention.forward(x, index, weights), lines 226-239.  nweights is
\* weights.size(0).  checked: whether the scatter kernels of the build
\* bounds-check a negative index (they raise) or not (the rows are written
\* outside the output and lost).
GlobalAttentionFlow(x, index, nweights, checked) ==
    IF NRows(x) # NRows(index) \/ nweights # NRows(x)
    THEN [err |-> "RuntimeError", out |-> NoRows]
    ELSE IF (\E r \in DOMAIN index : index[r] < 0) /\ checked
    THEN [err |-> "RuntimeError", out |-> NoRows]
    ELSE [err |-> "none", out |-> ScatterDeps(x, index)]

\* a normalization that uses the statistics of the batch in both modes
BatchNorm1dBatchStatistics(train, fea) == [j \in DOMAIN fea |-> UNION Range(fea)]

\* nn.BatchNorm1d on the rows of fea.  In training mode every output row is
\* normalized with the mean and variance of all rows of the batch; in
\* evaluation mode each row is normalized alone, with the running statistics.
BatchNorm1d(train, fea) ==
    IF train THEN [j \in DOMAIN fea |-> UNION Range(fea)] ELSE fea

\* the statistics a normalization step reads: the batch's own (written -1)
\* in training mode; in evaluation mode the running ones, identified by the
\* number of batches they have absorbed
StatsRead(train, tracked) == IF train THEN 0 - 1 ELSE tracked

\* a normalization that updates its running statistics in both modes
StatsAfterInBothModes(train, tracked) == tracked + 1

\* the running statistics after a normalization step
StatsAfter(train, tracked) == IF train THEN tracked + 1 ELSE tracked

NotRead == [filter |-> 0 - 2, core |-> 0 - 2]

\* ------------------------------------------------------------------------
\* MessageLayer.forward
\* ------------------------------------------------------------------------
\* atom_in_fea: 0-based table of rows; natoms: atom_weights.size(0).
MessageLayer_forward(train, stats, natoms, atom_in_fea, self_fea_idx, nbr_fea_idx, checked) ==
    LET n == NRows(atom_in_fea) IN
    IF ~IndexInBounds(natoms, nbr_fea_idx)
       \/ ~IndexInBounds(n, nbr_fea_idx)
       \/ ~IndexInBounds(n, self_fea_idx)
    THEN [err |-> "IndexError", fea |-> NoRows, stats |-> stats, read |-> NotRead]
    ELSE IF train /\ NRows(self_fea_idx) = 1
    THEN \* BatchNorm1d refuses a single row in training mode
         [err |-> "ValueError", fea |-> NoRows, stats |-> stats, read |-> NotRead]
    ELSE
    LET total_fea == [j \in DOMAIN self_fea_idx |->
                        atom_in_fea[WrapIndex(self_fea_idx[j], n)]
                        \cup atom_in_fea[WrapIndex(nbr_fea_idx[j], n)]]
        filter_fea == BatchNorm1d(train, total_fea)
        core_fea == BatchNorm1d(train, total_fea)
        nbr_message == [j \in DOMAIN self_fea_idx |-> filter_fea[j] \cup core_fea[j]]
        pooled == GlobalAttentionFlow(nbr_message, self_fea_idx,
                                      NRows(nbr_fea_idx), checked)
    IN  [err |-> pooled.err,
         fea |-> pooled.out,
         stats |-> [filter |-> StatsAfter(train, stats.filter),
                    core |-> StatsAfter(train, stats.core)],
         read |-> [filter |-> StatsRead(train, stats.filter),
                   core |-> StatsRead(train, stats.core)]]

\* ------------------------------------------------------------------------
\* CompositionNet.forward
\* ------------------------------------------------------------------------

\* for graph_func in self.graphs: atom_fea = graph_func(...), lines 187-188.
\* st: the state of the loop before layer k.
RECURSIVE GraphLoop(_, _, _, _, _)
GraphLoop(k, ngraph, train, b, st) ==
    IF k > ngraph \/ st.err # "none" THEN st
    ELSE LET r == MessageLayer_forward(train, st.stats[k], b.natoms, st.fea,
                                       b.self_fea_idx, b.nbr_fea_idx, b.checked)
         IN GraphLoop(k + 1, ngraph, train, b,
                [err |-> r.err,
                 fea |-> r.fea,
                 stats |-> [st.stats EXCEPT ![k] = r.stats],
                 rows |-> IF r.err = "none" THEN Append(st.rows, NRows(r.fea)) ELSE st.rows,
                 read |-> Append(st.read, r.read)])

\* self.embedding(orig_atom_fea), line 184: row i of the embedding is
\* computed from row i of the input alone.
Embedding(natoms) == [i \in 0..(natoms - 1) |-> {i}]

\* if self.output_nn: crys_fea = self.output_nn(crys_fea), lines 193-194.
\* __init__ assigns self.output_nn only when an output transform was given
\* (lines 148-149); reading the attribute of a module that never got it
\* raises AttributeError.
OutputStage(outnn, crys_fea) ==
    IF outnn = "unset" THEN [err |-> "AttributeError", head |-> FALSE, rows |-> NoRows]
    ELSE [err |-> "none", head |-> TRUE, rows |-> crys_fea]

CompositionNet_forward(ngraph, outnn, train, stats, b) ==
    LET loop == GraphLoop(1, ngraph, train, b,
                    [err |-> "none", fea |-> Embedding(b.natoms), stats |-> stats,
                     rows |-> <<>>, read |-> <<>>])
        pool == IF loop.err # "none" THEN [err |-> loop.err, out |-> NoRows]
                ELSE GlobalAttentionFlow(loop.fea, b.crystal_atom_idx, b.natoms, b.checked)
        last == IF pool.err # "none" THEN [err |-> pool.err, head |-> FALSE, rows |-> NoRows]
                ELSE OutputStage(outnn, pool.out)
    IN  [done |-> TRUE,
         mode |-> IF train THEN "train" ELSE "eval",
         err |-> last.err,
         rows |-> loop.rows,
         layers |-> Len(loop.read),
         read |-> loop.read,
         pooled |-> pool.err = "none",
         crys_fea |-> pool.out,
         head |-> last.head,
         out |-> last.rows,
         stats |-> loop.stats]

NoResult ==
    [done |-> FALSE, mode |-> "none", err |-> "none", rows |-> <<>>, layers |-> 0,
     read |-> <<>>, pooled |-> FALSE, crys_fea |-> NoRows, head |-> FALSE,
     out |-> NoRows,
     stats |-> <<>>]

\* ------------------------------------------------------------------------
\* Batches
\* ------------------------------------------------------------------------

\* crystals concatenated one after the other: every crystal 0..C-1 has atoms
Partitions(natoms, ncrys) ==
    {p \in [0..(natoms - 1) -> 0..(ncrys - 1)] :
        NonDecreasing(p) /\ Range(p) = 0..(ncrys - 1)}

\* the batches of the input contract (section 3 of the data model): indices
\* valid, every atom in one crystal.  Bonds are listed owner by owner.
ValidBatches(maxAtoms, maxBonds) ==
    UNION {
      UNION {
        UNION {
          {[natoms |-> N, ncrys |-> C, checked |-> TRUE,
            self_fea_idx |-> s, nbr_fea_idx |-> nb, crystal_atom_idx |-> p] :
              s \in {q \in [0..(M - 1) -> 0..(N - 1)] : NonDecreasing(q)},
              nb \in [0..(M - 1) -> 0..(N - 1)],
              p \in Partitions(N, C)}
          : C \in 1..(IF N < MaxCrystals THEN N ELSE MaxCrystals)}
        : M \in 1..maxBonds}
      : N \in 1..maxAtoms}

\* one entry of one index tensor replaced by a value outside its domain
BadValues(hi) == {0 - 1, hi}

BadBatches(valid) ==
    UNION {
        {[b EXCEPT !.self_fea_idx[j] = v, !.checked = c] :
            j \in DOMAIN b.self_fea_idx, v \in BadValues(b.natoms), c \in BOOLEAN}
        \cup {[b EXCEPT !.nbr_fea_idx[j] = v] :
            j \in DOMAIN b.nbr_fea_idx, v \in BadValues(b.natoms)}
        \cup {[b EXCEPT !.crystal_atom_idx[i] = v, !.checked = c] :
            i \in DOMAIN b.crystal_atom_idx, v \in BadValues(b.ncrys), c \in BOOLEAN}
      : b \in valid}

\* the input contract of forward
ValidInput(b) ==
    /\ \A j \in DOMAIN b.self_fea_idx :
          b.self_fea_idx[j] \in 0..(b.natoms - 1) /\ b.nbr_fea_idx[j] \in 0..(b.natoms - 1)
    /\ \A i \in DOMAIN b.crystal_atom_idx : b.crystal_atom_idx[i] \in 0..(b.ncrys - 1)

\* ------------------------------------------------------------------------
\* The network over time
\* ------------------------------------------------------------------------
FreshStats == [filter |-> 0, core |-> 0]

GateIdle == heap = <<>> /\ caller = <<>> /\ net = <<>> /\ touched = 0
PoolIdle == pin = <<>> /\ pout = <<>>

NetInit(batches) ==
    /\ n_graph \in 1..MaxGraph
    /\ output_nn \in {"unset", "head"}
    /\ training = TRUE
    /\ bn = [k \in 1..n_graph |-> FreshStats]
    /\ batch \in batches
    /\ result = NoResult

\* model.train()
Train ==
    /\ ~training
    /\ training' = TRUE
    /\ UNCHANGED <<n_graph, output_nn, bn, batch, result>>

\* model.eval()
Eval ==
    /\ training
    /\ training' = FALSE
    /\ UNCHANGED <<n_graph, output_nn, bn, batch, result>>

\* one call of CompositionNet.forward on the batch
Forward ==
    /\ training => \A k \in 1..n_graph : bn[k].filter < MaxTracked
    /\ LET r == CompositionNet_forward(n_graph, output_nn, training, bn, batch)
       IN /\ result' = r
          /\ bn' = r.stats
    /\ UNCHANGED <<n_graph, output_nn, training, batch>>

NetNext == (Train \/ Eval \/ Forward) /\ UNCHANGED <<gateVars, poolVars>>

Init == NetInit(ValidBatches(MaxAtoms, MaxBonds)) /\ GateIdle /\ PoolIdle
Spec == Init /\ [][NetNext]_vars

InitBadIndex == NetInit(BadBatches(ValidBatches(MaxAtoms, MaxBonds))) /\ GateIdle /\ PoolIdle
SpecBadIndex == InitBadIndex /\ [][NetNext]_vars

\* ------------------------------------------------------------------------
\* Claims about CompositionNet.forward
\* ------------------------------------------------------------------------

\* C1: on every valid input each MessageLayer round returns exactly N rows,
\* one per atom, so that no round and not the final pooling fails on the
\* indices or the shapes.
C1_EveryRoundReturnsNRows ==
    (result.done /\ ValidInput(batch)) =>
        /\ \A k \in DOMAIN result.rows : result.rows[k] = batch.natoms
        /\ result.err \notin {"IndexError", "RuntimeError"}

\* C2: a network constructed without an output transform returns the pooled
\* crystal rows unchanged and does not raise; with a transform it returns
\* the transform applied to the pooled rows.
C2_NoOutputTransformReturnsPooled ==
    (result.done /\ result.pooled) =>
        /\ result.err = "none"
        /\ result.out = result.crys_fea
        /\ result.head = (output_nn = "head")

\* bonds that stay inside one crystal
NoCrossBonds(b) ==
    \A j \in DOMAIN b.self_fea_idx :
        b.crystal_atom_idx[b.self_fea_idx[j]] = b.crystal_atom_idx[b.nbr_fea_idx[j]]

AtomsOf(b, c) == {i \in DOMAIN b.crystal_atom_idx : b.crystal_atom_idx[i] = c}

\* the output row of every crystal is computed from that crystal's atom
\* features alone
Isolated ==
    \A c \in DOMAIN result.out : result.out[c] \subseteq AtomsOf(batch, c)

\* C3 as stated: in every mode, with bonds inside crystals, the output row of
\* a crystal does not depend on the atom features of another crystal.
C3_IsolatedInEveryMode ==
    (result.done /\ result.err = "none" /\ ValidInput(batch) /\ NoCrossBonds(batch))
        => Isolated

\* C3 amended: in evaluation mode, with bonds inside crystals, the output row
\* of a crystal does not depend on the atom features of another crystal.
C3_IsolatedInEvalMode ==
    (result.done /\ result.err = "none" /\ result.mode = "eval"
        /\ ValidInput(batch) /\ NoCrossBonds(batch))
        => Isolated

C3_Witness ==
    /\ result.done /\ result.err = "none" /\ result.mode = "eval"
    /\ ValidInput(batch) /\ NoCrossBonds(batch)
    /\ batch.ncrys >= 2
    /\ \A c \in DOMAIN result.out : result.out[c] # {}

\* C6: the running statistics change only in a forward pass in training
\* mode; a forward pass in evaluation mode leaves them as they are, and two
\* evaluation passes in a row on the same batch return the same output.
C6_StatisticsChangeOnlyInTraining ==
    [][ /\ (bn' # bn) =>
              /\ training /\ training'
              /\ result' = CompositionNet_forward(n_graph, output_nn, TRUE, bn, batch)
        /\ (~training /\ ~training' /\ result.mode = "eval") =>
              /\ result'.err = result.err
              /\ result'.out = result.out
              /\ result'.read = result.read
      ]_vars

C6_Witness ==
    /\ result.done /\ result.mode = "eval" /\ result.err = "none"
    /\ ~training
    /\ \A k \in 1..n_graph :
          /\ bn[k].filter > 0 /\ bn[k].core > 0
          /\ result.read[k] = bn[k]

\* C8: a batch with an index outside its domain makes forward fail and
\* return nothing.
C8_BadIndexIsFatal ==
    (result.done /\ ~ValidInput(batch)) =>
        (result.err # "none" /\ result.out = NoRows)

\* ------------------------------------------------------------------------
\* CompositionNet.__init__ and the gate networks
\* ------------------------------------------------------------------------
\* A gate network is an object in memory; heap[o] stands for the parameters
\* of object o.  A component that holds object o reads and trains heap[o].

\* no copy: the object itself
DeepCopyShared(h, obj) == [heap |-> h, obj |-> obj]

\* copy.deepcopy(obj): a new object with the same parameters
DeepCopy(h, obj) == [heap |-> Append(h, h[obj]), obj |-> Len(h) + 1]

\* GlobalAttention.__init__(gate_nn), lines 222-224: keeps the object it is given
GlobalAttention_init(gate_nn) == gate_nn

\* MessageLayer.__init__(..., atom_gate), line 33
MessageLayer_init(atom_gate) == GlobalAttention_init(atom_gate)

\* self.graphs = ModuleList([MessageLayer(atom_gate=copy.deepcopy(atom_gate))
\*                           for i in range(n_graph)]), lines 140-143
RECURSIVE BuildGraphs(_, _, _, _)
BuildGraphs(i, h, atom_gate, graphs) ==
    IF i = 0 THEN [heap |-> h, graphs |-> graphs]
    ELSE LET c == DeepCopy(h, atom_gate)
         IN BuildGraphs(i - 1, c.heap, atom_gate, Append(graphs, MessageLayer_init(c.obj)))

CompositionNet_init(h, atom_gate, crys_gate, ngraph) ==
    LET g == BuildGraphs(ngraph, h, atom_gate, <<>>)
    IN [heap |-> g.heap,
        net |-> [built |-> TRUE, graphs |-> g.graphs,
                 pooling |-> GlobalAttention_init(crys_gate)]]

\* components 1..n_graph are the message layers, n_graph + 1 the final pooling
Components == IF net.built THEN 1..(Len(net.graphs) + 1) ELSE {}

GateOf(c) == IF c <= Len(net.graphs) THEN net.graphs[c] ELSE net.pooling

NetIdle ==
    /\ n_graph = 0 /\ output_nn = "unset" /\ training = TRUE /\ bn = <<>>
    /\ batch = <<>> /\ result = NoResult

\* the caller made its gate networks: two objects, or one passed twice
InitGate ==
    /\ \E p \in 0..MaxParam, q \in 0..MaxParam :
          \/ heap = <<p, q>> /\ caller = [atom_gate |-> 1, crys_gate |-> 2]
          \/ heap = <<p>> /\ caller = [atom_gate |-> 1, crys_gate |-> 1]
    /\ net = [built |-> FALSE, graphs |-> <<>>, pooling |-> 0]
    /\ touched = 0
    /\ NetIdle /\ PoolIdle

Construct ==
    /\ ~net.built
    /\ \E n \in 1..MaxGraph :
          LET r == CompositionNet_init(heap, caller.atom_gate, caller.crys_gate, n)
          IN heap' = r.heap /\ net' = r.net
    /\ UNCHANGED <<caller, touched>>

\* an optimizer step on the gate parameters of one component
UpdateGate ==
    /\ net.built
    /\ \E c \in Components, v \in 0..MaxParam :
          /\ heap[GateOf(c)] # v
          /\ heap' = [heap EXCEPT ![GateOf(c)] = v]
          /\ touched' = c
    /\ UNCHANGED <<caller, net>>

GateNext == (Construct \/ UpdateGate) /\ UNCHANGED <<netVars, poolVars>>

SpecGate == InitGate /\ [][GateNext]_vars

\* C9: the n_graph message layers and the final pooling hold gate networks
\* of their own: an update of one component's gate parameters leaves the gate
\* parameters of every other component unchanged, also when the caller passed
\* one object as atom_gate and as crys_gate.
C9_GatesAreNotShared ==
    [][ (net.built /\ net' = net /\ heap' # heap) =>
            \A d \in Components :
                d # touched' => heap'[GateOf(d)] = heap[GateOf(d)]
      ]_vars

C9_Witness ==
    /\ net.built
    /\ caller.atom_gate = caller.crys_gate
    /\ Len(net.graphs) >= 2
    /\ touched # 0
    /\ \A d \in Components : d # touched => heap[GateOf(d)] # heap[GateOf(touched)]

\* ------------------------------------------------------------------------
\* Exact arithmetic for the pooling layers
\* ------------------------------------------------------------------------
\* Natural numbers of any size: a sequence of limbs, least significant
\* first, without leading zero limbs (<<>> is 0).
Base == 100 * 100

RECURSIVE NTrim(_)
NTrim(a) == IF a = <<>> THEN a
            ELSE IF a[Len(a)] = 0 THEN NTrim(SubSeq(a, 1, Len(a) - 1)) ELSE a

\* limbs from columns that may exceed a limb (or be negative, in a difference
\* that is not negative as a whole)
RECURSIVE NCarry(_, _)
NCarry(cols, c) ==
    IF cols = <<>> THEN (IF c = 0 THEN <<>> ELSE <<c % Base>> \o NCarry(<<>>, c \div Base))
    ELSE LET t == Head(cols) + c
         IN <<t % Base>> \o NCarry(Tail(cols), t \div Base)

NLimb(a, i) == IF i >= 1 /\ i <= Len(a) THEN a[i] ELSE 0

NOf(k) == NTrim(NCarry(<<k>>, 0))

NAdd(a, b) ==
    NTrim(NCarry([i \in 1..(IF Len(a) > Len(b) THEN Len(a) ELSE Len(b)) |->
                    NLimb(a, i) + NLimb(b, i)], 0))

RECURSIVE NColumn(_, _, _, _)
NColumn(a, b, k, i) ==
    IF i > Len(a) \/ i > k THEN 0
    ELSE NLimb(a, i) * NLimb(b, k + 1 - i) + NColumn(a, b, k, i + 1)

NMul(a, b) ==
    IF a = <<>> \/ b = <<>> THEN <<>>
    ELSE NTrim(NCarry([k \in 1..(Len(a) + Len(b) - 1) |-> NColumn(a, b, k, 1)], 0))

\* -1, 0, 1 as a < b, a = b, a > b
RECURSIVE NCmpFrom(_, _, _)
NCmpFrom(a, b, i) ==
    IF i = 0 THEN 0
    ELSE IF a[i] < b[i] THEN 0 - 1
    ELSE IF a[i] > b[i] THEN 1
    ELSE NCmpFrom(a, b, i - 1)

NCmp(a, b) ==
    IF Len(a) < Len(b) THEN 0 - 1
    ELSE IF Len(a) > Len(b) THEN 1
    ELSE NCmpFrom(a, b, Len(a))

\* |a - b|
NDiff(a, b) ==
    LET hi == IF NCmp(a, b) >= 0 THEN a ELSE b
        lo == IF NCmp(a, b) >= 0 THEN b ELSE a
    IN NTrim(NCarry([i \in 1..Len(hi) |-> NLimb(hi, i) - NLimb(lo, i)], 0))

RECURSIVE NPow(_, _)
NPow(k, n) ==
    IF n = 0 THEN <<1>>
    ELSE IF n % 2 = 1 THEN NMul(NOf(k), NPow(k, n - 1))
    ELSE LET h == NPow(k, n \div 2) IN NMul(h, h)

\* Non-negative numbers with a finite binary and decimal expansion:
\* [m, e2, e5] stands for m / (2^e2 * 5^e5).  Sums and products of such
\* numbers are such numbers.
Dec(k, e2, e5) == [m |-> NOf(k), e2 |-> e2, e5 |-> e5]

DInt(k) == Dec(k, 0, 0)

\* 10^-n
DTenTo(n) == Dec(1, n, n)

\* the numerator of a over the denominator 2^e2 * 5^e5
DScaled(a, e2, e5) ==
    IF e2 = a.e2 /\ e5 = a.e5 THEN a.m
    ELSE NMul(a.m, NMul(NPow(2, e2 - a.e2), NPow(5, e5 - a.e5)))

DMax(i, j) == IF i > j THEN i ELSE j

DAdd(a, b) ==
    LET e2 == DMax(a.e2, b.e2)
        e5 == DMax(a.e5, b.e5)
    IN [m |-> NAdd(DScaled(a, e2, e5), DScaled(b, e2, e5)), e2 |-> e2, e5 |-> e5]

DDiff(a, b) ==
    LET e2 == DMax(a.e2, b.e2)
        e5 == DMax(a.e5, b.e5)
    IN [m |-> NDiff(DScaled(a, e2, e5), DScaled(b, e2, e5)), e2 |-> e2, e5 |-> e5]

DMul(a, b) == [m |-> NMul(a.m, b.m), e2 |-> a.e2 + b.e2, e5 |-> a.e5 + b.e5]

DCmp(a, b) ==
    LET e2 == DMax(a.e2, b.e2)
        e5 == DMax(a.e5, b.e5)
    IN NCmp(DScaled(a, e2, e5), DScaled(b, e2, e5))

DZero == DInt(0)

\* Quotients n / d of such numbers (d = 0: the division gave inf or nan).
FAdd(p, q) ==
    IF DCmp(p.d, q.d) = 0 THEN [n |-> DAdd(p.n, q.n), d |-> p.d]
    ELSE [n |-> DAdd(DMul(p.n, q.d), DMul(q.n, p.d)), d |-> DMul(p.d, q.d)]

FScale(p, k) == [n |-> DMul(p.n, k), d |-> p.d]

FZero == [n |-> DZero, d |-> DInt(1)]

FFinite(p) == DCmp(p.d, DZero) # 0

FEq(p, q) ==
    FFinite(p) /\ FFinite(q) /\ DCmp(DMul(p.n, q.d), DMul(q.n, p.d)) = 0

\* |p - q| <= tol
FClose(p, q, tol) ==
    /\ FFinite(p) /\ FFinite(q)
    /\ DCmp(DDiff(DMul(p.n, q.d), DMul(q.n, p.d)), DMul(tol, DMul(p.d, q.d))) <= 0

\* ------------------------------------------------------------------------
\* GlobalAttention.forward and WeightedMeanPooling.forward in numbers
\* ------------------------------------------------------------------------
\* x is a table of rows 0..R-1 with one feature each (the x.dim() == 1 case
\* of line 228), a feature a natural number.  A gate logit is an integer
\* multiple of ln 2, written as that integer, so that gate.exp() is a power
\* of two and every quantity of the forward pass is a rational number.

Eps == DTenTo(EpsDigits)

\* gate.exp()
Exp(g) == IF g >= 0 THEN [m |-> NPow(2, g), e2 |-> 0, e5 |-> 0]
          ELSE Dec(1, 0 - g, 0)

Segments(index) == 0..MaxOf(Range(index))

Members(index, s) == {r \in DOMAIN index : index[r] = s}

\* the sum of t[r] over the rows r of S, in row order
RECURSIVE DSum(_, _)
DSum(t, S) ==
    IF S = {} THEN DZero
    ELSE LET r == MaxOf(S) IN DAdd(DSum(t, S \ {r}), t[r])

RECURSIVE FSum(_, _)
FSum(t, S) ==
    IF S = {} THEN FZero
    ELSE IF Cardinality(S) = 1 THEN t[MaxOf(S)]
    ELSE LET r == MaxOf(S) IN FAdd(FSum(t, S \ {r}), t[r])

RECURSIVE DProd(_, _)
DProd(t, S) ==
    IF S = {} THEN DInt(1)
    ELSE LET r == MaxOf(S) IN DMul(DProd(t, S \ {r}), t[r])

\* self.gate_nn(x).view(-1,1), line 230: a linear gate with weight g.w and
\* bias g.b
GateNN(g, x) == [r \in DOMAIN x |-> g.w * x[r] + g.b]

\* the logits as they are, no maximum subtracted
StabiliseNot(gate, index) == gate

\* gate - scatter_max(gate, index, dim=0)[0][index], line 233
Stabilise(gate, index) ==
    [r \in DOMAIN gate |->
        gate[r] - MaxOf({gate[q] : q \in Members(index, index[r])})]

\* weights * gate.exp(), line 234
Unnormalised(gate, weights) == [r \in DOMAIN gate |-> DMul(weights[r], Exp(gate[r]))]

\* a normalization by the sum over all rows instead of the rows of the segment
NormaliseByTotal(unnorm, index) ==
    LET total == DSum(unnorm, DOMAIN unnorm)
    IN [r \in DOMAIN unnorm |-> [n |-> unnorm[r], d |-> DAdd(total, Eps)]]

\* gate / (scatter_add(gate, index, dim=0)[index] + 1e-13), line 235
Normalise(unnorm, index) ==
    LET total == [s \in Segments(index) |-> DSum(unnorm, Members(index, s))]
    IN [r \in DOMAIN unnorm |->
            [n |-> unnorm[r], d |-> DAdd(total[index[r]], Eps)]]

\* scatter_add(gate * x, index, dim=0), line 237: a segment without rows
\* keeps the fill value 0
Pool(coeff, x, index) ==
    [s \in Segments(index) |->
        FSum([r \in DOMAIN x |-> FScale(coeff[r], DInt(x[r]))], Members(index, s))]

\* lines 233-237 on given gate logits
Attention(gate, x, index, weights) ==
    LET coeff == Normalise(Unnormalised(Stabilise(gate, index), weights), index)
    IN [coeff |-> coeff, out |-> Pool(coeff, x, index)]

GlobalAttention_forward(g, x, index, weights) ==
    Attention(GateNN(g, x), x, index, weights)

\* WeightedMeanPooling.forward, lines 209-215:
\* scatter_mul(weights * x, index) / scatter_mul(weights, index)
WeightedMeanPooling_forward(x, index, weights) ==
    [s \in Segments(index) |->
        [n |-> DProd([r \in DOMAIN x |-> DMul(weights[r], DInt(x[r]))], Members(index, s)),
         d |-> DProd(weights, Members(index, s))]]

\* ------------------------------------------------------------------------
\* The pooling layers on bounded inputs
\* ------------------------------------------------------------------------
Tol == DTenTo(6)

\* atom weights: 0, 5e-8 and 1
WeightValues == {DZero, Dec(5, 8, 8), DInt(1)}

\* weight of the linear gate: constant logits, or logits that grow with the
\* feature
GateWeights == {0, 1}

PoolInputs(maxRows) ==
    UNION {
        {[x |-> x, index |-> index, weights |-> w, gate |-> [w |-> gw, b |-> 0]] :
            x \in [0..(R - 1) -> 1..MaxFea],
            index \in {i \in [0..(R - 1) -> 0..(MaxSegments - 1)] : NonDecreasing(i)},
            w \in [0..(R - 1) -> WeightValues],
            gw \in GateWeights}
      : R \in 1..maxRows}

NoTable == [i \in {} |-> FZero]

NoCall == [op |-> "none", coeff |-> NoTable, out |-> NoTable, other |-> NoTable,
           seg |-> 0, shift |-> 0, row |-> 0, value |-> 0]

InitPool ==
    /\ pin \in PoolInputs(MaxRows)
    /\ pout = NoCall
    /\ NetIdle /\ GateIdle

\* pooling(x, index, weights)
PoolForward ==
    /\ pout.op = "none"
    /\ LET r == GlobalAttention_forward(pin.gate, pin.x, pin.index, pin.weights)
       IN pout' = [NoCall EXCEPT !.op = "forward", !.coeff = r.coeff, !.out = r.out]
    /\ UNCHANGED pin

\* the pooling on the gate logits of x, and on the same logits with c added
\* in the rows of segment s
PoolShifted ==
    /\ pout.op = "none"
    /\ LET gate == GateNN(pin.gate, pin.x)
           plain == Attention(gate, pin.x, pin.index, pin.weights).out
       IN \E s \in Range(pin.index), c \in {0 - MaxShift, MaxShift} :
             LET moved == [r \in DOMAIN gate |->
                             IF pin.index[r] = s THEN gate[r] + c ELSE gate[r]]
             IN pout' = [NoCall EXCEPT
                            !.op = "shifted", !.seg = s, !.shift = c,
                            !.out = plain,
                            !.other = Attention(moved, pin.x, pin.index, pin.weights).out]
    /\ UNCHANGED pin

\* the pooling on x, and on x with the feature of a zero-weight row replaced
PoolPerturbed ==
    /\ pout.op = "none"
    /\ LET plain == GlobalAttention_forward(pin.gate, pin.x, pin.index, pin.weights).out
       IN \E r \in DOMAIN pin.x, v \in (1..MaxFea) \cup {BigFea} :
             /\ DCmp(pin.weights[r], DZero) = 0
             /\ v # pin.x[r]
             /\ pout' = [NoCall EXCEPT
                           !.op = "perturbed", !.row = r, !.value = v,
                           !.out = plain,
                           !.other = GlobalAttention_forward(pin.gate,
                                       [pin.x EXCEPT ![r] = v], pin.index, pin.weights).out]
    /\ UNCHANGED pin

\* GlobalAttention and WeightedMeanPooling on the same x, index and weights
PoolBoth ==
    /\ pout.op = "none"
    /\ pout' = [NoCall EXCEPT
                  !.op = "both",
                  !.out = GlobalAttention_forward(pin.gate, pin.x,
                              pin.index, pin.weights).out,
                  !.other = WeightedMeanPooling_forward(pin.x, pin.index, pin.weights)]
    /\ UNCHANGED pin

PoolNext ==
    (PoolForward \/ PoolShifted \/ PoolPerturbed \/ PoolBoth)
    /\ UNCHANGED <<netVars, gateVars>>

SpecPool == InitPool /\ [][PoolNext]_vars

\* ------------------------------------------------------------------------
\* Claims about the pooling layers
\* ------------------------------------------------------------------------
One == [n |-> DInt(1), d |-> DInt(1)]

\* the sum of the attention coefficients of segment s
CoeffSum(s) == FSum(pout.coeff, Members(pin.index, s))

\* the unnormalised mass of segment s: the sum of weights * exp(stabilised
\* logit) over its rows
Mass(s) ==
    DSum(Unnormalised(Stabilise(GateNN(pin.gate, pin.x), pin.index), pin.weights),
         Members(pin.index, s))

\* C4 as stated: for non-negative weights, zero allowed, the coefficients of
\* every segment that has a row sum to 1 within 1e-6.
C4_CoefficientsSumToOne ==
    pout.op = "forward" =>
        \A s \in Range(pin.index) : FClose(CoeffSum(s), One, Tol)

\* C4 amended: the coefficients of a segment sum to 1 within 1e-6 when the
\* unnormalised mass of the segment is at least 1e-7.
C4_CoefficientsSumToOneGivenMass ==
    pout.op = "forward" =>
        \A s \in Range(pin.index) :
            DCmp(Mass(s), DTenTo(7)) >= 0 => FClose(CoeffSum(s), One, Tol)

C4_Witness ==
    /\ pout.op = "forward"
    /\ \E s \in Range(pin.index) :
          /\ Cardinality(Members(pin.index, s)) >= 2
          /\ DCmp(Mass(s), DTenTo(7)) = 0
          /\ \E r \in Members(pin.index, s) : DCmp(pin.weights[r], DTenTo(7)) < 0
          /\ FClose(CoeffSum(s), One, Tol)

\* C5: replacing the feature of a zero-weight row leaves every pooled output
\* row unchanged (within 1e-6).
C5_ZeroWeightRowHasNoEffect ==
    pout.op = "perturbed" =>
        \A s \in DOMAIN pout.out : FClose(pout.out[s], pout.other[s], Tol)

\* the pooled output with the 1e-13 guard taken out of the denominator
Unguarded(p) == [n |-> p.n, d |-> DDiff(p.d, Eps)]

\* C7: with equal gate logits in a segment and positive weights,
\* GlobalAttention returns for the segment what WeightedMeanPooling returns,
\* up to the 1e-13 guard.
C7_EqualLogitsGiveWeightedMean ==
    (pout.op = "both" /\ pin.gate.w = 0
        /\ \A r \in DOMAIN pin.weights : DCmp(pin.weights[r], DZero) > 0)
    => \A s \in Range(pin.index) : FEq(Unguarded(pout.out[s]), pout.other[s])

\* C10: adding a constant to the gate logits of the rows of one segment
\* leaves the pooled output of that segment and of every other segment
\* unchanged.
C10_ShiftInvariance ==
    pout.op = "shifted" =>
        \A s \in DOMAIN pout.out : FEq(pout.out[s], pout.other[s])

C10_Witness ==
    /\ pout.op = "shifted"
    /\ pin.gate.w # 0
    /\ \E r \in Members(pin.index, pout.seg), q \in Members(pin.index, pout.seg) :
          /\ pin.x[r] # pin.x[q]
          /\ DCmp(pin.weights[r], DZero) > 0
          /\ DCmp(pin.weights[q], DZero) > 0
    /\ DCmp(pout.out[pout.seg].n, DZero) > 0
    /\ FEq(pout.out[pout.seg], pout.other[pout.seg])

====
